---- MODULE Spec2Model ----
(***************************************************************************)
(* A model of zircon, the toolchain version manager of zirco-lang: the     *)
(* toolchains directory, the `current` link, and the commands build,       *)
(* install, import, switch, delete and prune that change them.             *)
(*                                                                         *)
(* Paths are sequences of path components relative to the toolchains root  *)
(* (<zircon_root>/toolchains).  Toolchain names, archive member names and  *)
(* git references are strings, split into components the way               *)
(* std::path::Path::components splits them.                                *)
(***************************************************************************)
EXTENDS Integers, Sequences, FiniteSets, TLC

VARIABLES
    dirs,     \* the directories under the toolchains root (set of paths)
    files,    \* the regular files under the toolchains root: path -> stamp
    current,  \* the `current` link: NoLink, or a link with its target path
    outside,  \* what has been written outside the toolchains root
    mirror,   \* the zrc repository mirror: [cloned, origin, refs, odb, head]
    upstream, \* the repositories the mirror is cloned and fetched from, by URL
    root,     \* the zircon root apart from the toolchains and the mirror:
              \* [dirs, files, outside, link], link being bin/zircon
    pc,       \* "idle", or "link" inside create_link (old link removed)
    pending,  \* the command that is inside create_link, and its snapshot
    last      \* the last completed command, its result and the state before

vars == <<dirs, files, current, outside, mirror, upstream, root, pc, pending, last>>

----------------------------------------------------------------------------
(* Bounds of the model.                                                    *)

\* At most this many entries directly under the toolchains root.
MaxToolchains == 2

----------------------------------------------------------------------------
(* Strings and paths.                                                      *)

\* The i-th character of a string.
CharAt(s, i) == SubSeq(s, i, i)

\* str::ends_with
EndsWith(s, suf) ==
    /\ Len(s) >= Len(suf)
    /\ SubSeq(s, Len(s) - Len(suf) + 1, Len(s)) = suf

\* str::starts_with
StartsWith(s, pre) ==
    /\ Len(s) >= Len(pre)
    /\ SubSeq(s, 1, Len(pre)) = pre

\* str::trim_end_matches: removes every repetition of the suffix.
RECURSIVE trim_end_matches(_, _)
trim_end_matches(s, suf) ==
    IF Len(suf) > 0 /\ EndsWith(s, suf)
    THEN trim_end_matches(SubSeq(s, 1, Len(s) - Len(suf)), suf)
    ELSE s

\* str::replace('/', "-")
RECURSIVE replace_slash(_)
replace_slash(s) ==
    IF Len(s) = 0 THEN ""
    ELSE (IF CharAt(s, 1) = "/" THEN "-" ELSE CharAt(s, 1))
         \o replace_slash(SubSeq(s, 2, Len(s)))

\* The pieces of s between '/' characters, empty pieces included.
RECURSIVE SplitSlash(_, _, _)
SplitSlash(s, i, acc) ==
    IF i > Len(s) THEN <<acc>>
    ELSE IF CharAt(s, i) = "/" THEN <<acc>> \o SplitSlash(s, i + 1, "")
    ELSE SplitSlash(s, i + 1, acc \o CharAt(s, i))

\* Path::components: a leading '/' is the RootDir component (written "/"),
\* repeated separators and non-leading "." are dropped, ".." is ParentDir.
Components(s) ==
    LET raw  == SplitSlash(s, 1, "")
        keep == SelectSeq(raw, LAMBDA c : c # "")
        body == IF Len(keep) = 0 THEN <<>>
                ELSE <<Head(keep)>> \o SelectSeq(Tail(keep), LAMBDA c : c # ".")
    IN  IF StartsWith(s, "/")
        THEN <<"/">> \o SelectSeq(keep, LAMBDA c : c # ".")
        ELSE body

RootDir == "/"
ParentDir == ".."
CurDir == "."

\* Path::is_absolute (unix): the path starts with the root.
is_absolute(comps) == Len(comps) > 0 /\ comps[1] = RootDir

\* p is q or lies below q.
IsPrefix(q, p) == Len(q) <= Len(p) /\ SubSeq(p, 1, Len(q)) = q

\* All non-empty prefixes of p: what create_dir_all creates.
Prefixes(p) == { SubSeq(p, 1, n) : n \in 1..Len(p) }

\* Path::file_name: the last component when it is a normal one.
None == [some |-> FALSE]
Some(v) == [some |-> TRUE, val |-> v]
file_name(p) ==
    IF Len(p) = 0 \/ p[Len(p)] \in {ParentDir, RootDir} THEN None
    ELSE Some(p[Len(p)])

----------------------------------------------------------------------------
(* The path registry.                                                      *)

\* paths::toolchain_dir: toolchains_dir().join(version), as a path relative
\* to the toolchains root.
toolchain_dir(version) == Components(version)

NoLink == [link |-> FALSE]
LinkTo(p) == [link |-> TRUE, target |-> p]

\* Path::exists of a path under the toolchains root.
PathExists(p) == p \in dirs \/ p \in DOMAIN files

\* current_link.exists(): follows the link, so a dangling link does not exist.
current_link_exists == current.link /\ PathExists(current.target)

----------------------------------------------------------------------------
(* The file system below the toolchains root, as a value that the steps of *)
(* a command pass along: [dirs, files, outside].                           *)

FsNow == [dirs |-> dirs, files |-> files, outside |-> outside]

FsExists(S, p) == p \in S.dirs \/ p \in DOMAIN S.files

\* Where a path lands once the file system has followed its ".."
\* components.  A path that climbs above the toolchains root is outside it.
RECURSIVE Walk(_, _, _)
Walk(acc, rest, escaped) ==
    IF Len(rest) = 0 THEN [in |-> ~escaped, path |-> acc]
    ELSE IF Head(rest) = CurDir THEN Walk(acc, Tail(rest), escaped)
    ELSE IF Head(rest) = RootDir THEN Walk(<<>>, Tail(rest), TRUE)
    ELSE IF Head(rest) = ParentDir
         THEN IF Len(acc) = 0 THEN Walk(<<>>, Tail(rest), TRUE)
              ELSE Walk(SubSeq(acc, 1, Len(acc) - 1), Tail(rest), escaped)
    ELSE Walk(Append(acc, Head(rest)), Tail(rest), escaped)

Resolve(p) == Walk(<<>>, p, FALSE)

\* std::fs::create_dir_all(p): p and every missing ancestor.
create_dir_all(S, p) ==
    LET made == { Resolve(q) : q \in Prefixes(p) }
    IN  [S EXCEPT !.dirs = @ \cup { r.path : r \in { m \in made : m.in /\ Len(m.path) > 0 } },
                  !.outside = @ \cup { p : r \in { m \in made : ~m.in } }]

\* File::create(p) and the copy of the member's bytes into it.
write_file(S, p, stamp) ==
    LET r == Resolve(p)
    IN  IF r.in
        THEN [S EXCEPT !.files = [q \in DOMAIN @ \cup {r.path} |->
                                      IF q = r.path THEN stamp ELSE @[q]]]
        ELSE [S EXCEPT !.outside = @ \cup {p}]

\* std::fs::remove_dir_all(p): p and everything below it.
remove_dir_all(S, p) ==
    [S EXCEPT !.dirs = { q \in @ : ~IsPrefix(p, q) },
              !.files = [q \in { x \in DOMAIN @ : ~IsPrefix(p, x) } |-> @[q]]]

\* A path without its last component (Path::parent).
Parent(p) == SubSeq(p, 1, Len(p) - 1)

----------------------------------------------------------------------------
(* The zircon root: paths relative to <zircon_root>.                       *)

\* self_dir, self_bin_dir, self_zircon_binary
self_dir == <<"self">>
self_bin_dir == <<"self", "bin">>
self_zircon_binary == <<"self", "bin", "zircon">>

\* The directories ensure_directories makes, in its order: sources_dir,
\* zirco_lang_dir, toolchains_dir, self_bin_dir, bin_dir.
SkeletonDirs ==
    << <<"sources">>, <<"sources", "zirco-lang">>, <<"toolchains">>,
       <<"self", "bin">>, <<"bin">> >>

\* std::fs::create_dir_all with its error: a path with a regular file at
\* or above it cannot be made, and nothing is made then.
try_create_dir_all(S, p) ==
    IF \E q \in Prefixes(p) : q \in DOMAIN S.files
    THEN [ok |-> FALSE, fs |-> S]
    ELSE [ok |-> TRUE, fs |-> create_dir_all(S, p)]

RECURSIVE ensure_from(_, _)
ensure_from(R, i) ==
    IF i > Len(SkeletonDirs) THEN [ok |-> TRUE, fs |-> R]
    ELSE LET made == try_create_dir_all(R, SkeletonDirs[i])
         IN  IF ~made.ok THEN made ELSE ensure_from(made.fs, i + 1)

\* ensure_directories that starts from a clean self directory: the variant
\* the safety of ensure_directories is tested against.
ensure_directories_clean(R) ==
    ensure_from([R EXCEPT !.dirs = { q \in @ : ~IsPrefix(self_dir, q) },
                          !.files = [q \in { x \in DOMAIN @ : ~IsPrefix(self_dir, x) } |-> @[q]]],
                1)

\* ensure_directories: the first create_dir_all that fails ends it.
ensure_directories(R) == ensure_from(R, 1)

----------------------------------------------------------------------------
(* Archives.  An archive is [file, sha256, entries, truncated]: its file   *)
(* name, the SHA-256 digest of its bytes, its members in stored order      *)
(* ([name, dir]: the stored path and whether the member is a directory)    *)
(* and whether its byte stream ends early.                                 *)

HashLen == 8

\* The stored path has a ".." component (std::path::Component::ParentDir).
HasParentDir(name) ==
    \E i \in 1..Len(Components(name)) : Components(name)[i] = ParentDir

\* unpack_in without the skip of members with a ParentDir component: the
\* variant the confinement of extraction is tested against.
unpack_in_unchecked(S, dest, e, stamp) ==
    LET comps    == Components(e.name)
        normal   == SelectSeq(comps, LAMBDA c : c \notin {RootDir, CurDir})
        file_dst == dest \o normal
    IN  IF Len(normal) = 0 THEN S
        ELSE IF e.dir THEN create_dir_all(S, file_dst)
        ELSE write_file(create_dir_all(S, Parent(file_dst)), file_dst, stamp)

\* tar::Entry::unpack_in(dst): RootDir and CurDir components are dropped, a
\* member with a ParentDir component is skipped and Ok is returned.
unpack_in(S, dest, e, stamp) ==
    LET comps    == Components(e.name)
        normal   == SelectSeq(comps, LAMBDA c : c \notin {RootDir, CurDir})
        file_dst == dest \o normal
    IN  IF HasParentDir(e.name) THEN S
        ELSE IF Len(normal) = 0 THEN S
        ELSE IF e.dir THEN create_dir_all(S, file_dst)
        ELSE write_file(create_dir_all(S, Parent(file_dst)), file_dst, stamp)

\* tar::Archive::unpack(dst): unpack_in for every member; the error of a
\* truncated stream comes after the members read before it.
RECURSIVE unpack_all(_, _, _, _, _)
unpack_all(S, dest, entries, i, stamp) ==
    IF i > Len(entries) THEN S
    ELSE unpack_all(unpack_in(S, dest, entries[i], stamp), dest, entries, i + 1, stamp)

Ok(S) == [ok |-> TRUE, fs |-> S]
Err(S) == [ok |-> FALSE, fs |-> S]

extract_tar(S, dest, ar) ==
    LET T == unpack_all(S, dest, ar.entries, 1, ar.sha256)
    IN  IF ar.truncated THEN Err(T) ELSE Ok(T)

\* The gzip layer changes nothing about the members.
extract_tar_gz(S, dest, ar) == extract_tar(S, dest, ar)

\* zip::read::ZipFile::enclosed_name: None for a path that is absolute or
\* that climbs above its starting directory; a ".." that stays inside passes.
RECURSIVE EnclosedDepth(_, _, _)
EnclosedDepth(comps, i, depth) ==
    IF i > Len(comps) THEN TRUE
    ELSE IF comps[i] = RootDir THEN FALSE
    ELSE IF comps[i] = ParentDir
         THEN depth > 0 /\ EnclosedDepth(comps, i + 1, depth - 1)
    ELSE IF comps[i] = CurDir THEN EnclosedDepth(comps, i + 1, depth)
    ELSE EnclosedDepth(comps, i + 1, depth + 1)

enclosed_name(name) ==
    IF EnclosedDepth(Components(name), 1, 0) THEN Some(Components(name)) ELSE None

\* The body of extract_zip's loop for one member.
zip_member(S, dest, e, stamp) ==
    LET en      == enclosed_name(e.name)
        outpath == dest \o en.val
    IN  IF ~en.some THEN S
        ELSE IF EndsWith(e.name, "/") THEN create_dir_all(S, outpath)
        ELSE write_file(create_dir_all(S, Parent(outpath)), outpath, stamp)

RECURSIVE zip_all(_, _, _, _, _)
zip_all(S, dest, entries, i, stamp) ==
    IF i > Len(entries) THEN S
    ELSE zip_all(zip_member(S, dest, entries[i], stamp), dest, entries, i + 1, stamp)

\* ZipArchive::new reads the central directory at the end of the file, so a
\* truncated file fails before any member is extracted.
extract_zip(S, dest, ar) ==
    IF ar.truncated THEN Err(S)
    ELSE Ok(zip_all(S, dest, ar.entries, 1, ar.sha256))

\* Path::extension: what follows the last '.' of the file name.
RECURSIVE LastDot(_, _)
LastDot(s, i) ==
    IF i < 1 THEN 0 ELSE IF CharAt(s, i) = "." THEN i ELSE LastDot(s, i - 1)

Extension(file) ==
    LET d == LastDot(file, Len(file))
    IN  IF d <= 1 THEN "" ELSE SubSeq(file, d + 1, Len(file))

\* extract_archive: the format is chosen by the extension.
extract_archive(S, dest, ar) ==
    LET extension == Extension(ar.file)
    IN  IF extension = "zip" THEN extract_zip(S, dest, ar)
        ELSE IF extension \in {"gz", "tgz"} THEN extract_tar_gz(S, dest, ar)
        ELSE IF extension = "tar" THEN extract_tar(S, dest, ar)
        ELSE Err(S)

\* extract_version_from_filename
extract_version_from_filename(file) ==
    trim_end_matches(trim_end_matches(trim_end_matches(trim_end_matches(
        file, ".tar.gz"), ".tgz"), ".tar"), ".zip")

\* compute_archive_hash: the first 8 characters of the hex digest.
compute_archive_hash(ar) == SubSeq(ar.sha256, 1, HashLen)

\* The toolchain name import gives an archive.
ImportVersion(ar) ==
    extract_version_from_filename(ar.file) \o "-" \o compute_archive_hash(ar)

\* validate_toolchain_structure: bin exists and is a directory.
validate_toolchain_structure(S, dest) == (dest \o <<"bin">>) \in S.dirs

\* verify_toolchain: bin/zrc exists.
verify_toolchain(S, dest) == FsExists(S, dest \o <<"bin", "zrc">>)

\* The extraction loop of InstallCmd::dispatch: a member with a ".."
\* component or an absolute path ends the loop with an error; the members
\* before it have been unpacked.
RECURSIVE install_extract(_, _, _, _, _, _)
install_extract(S, dest, entries, i, stamp, truncated) ==
    IF i > Len(entries) THEN (IF truncated THEN Err(S) ELSE Ok(S))
    ELSE IF HasParentDir(entries[i].name) THEN Err(S)
    ELSE IF is_absolute(Components(entries[i].name)) THEN Err(S)
    ELSE install_extract(unpack_in(S, dest, entries[i], stamp),
                         dest, entries, i + 1, stamp, truncated)

----------------------------------------------------------------------------
(* The toolchain registry (toolchains.rs), read from the current state.    *)

\* The byte order of the characters that names are made of.
Alphabet == "-./0123456789@ABCDEFGHIJKLMNOPQRSTUVWXYZ_abcdefghijklmnopqrstuvwxyz"

RECURSIVE RankFrom(_, _)
RankFrom(c, i) ==
    IF i > Len(Alphabet) THEN 0
    ELSE IF CharAt(Alphabet, i) = c THEN i ELSE RankFrom(c, i + 1)

\* The rank of every character, computed once.
RankOf == [c \in { CharAt(Alphabet, i) : i \in 1..Len(Alphabet) } |-> RankFrom(c, 1)]

Rank(c) == RankOf[c]

\* String::cmp(a, b) = Less
RECURSIVE StrLess(_, _)
StrLess(a, b) ==
    IF Len(b) = 0 THEN FALSE
    ELSE IF Len(a) = 0 THEN TRUE
    ELSE IF CharAt(a, 1) = CharAt(b, 1)
         THEN StrLess(SubSeq(a, 2, Len(a)), SubSeq(b, 2, Len(b)))
    ELSE Rank(CharAt(a, 1)) < Rank(CharAt(b, 1))

\* Vec::sort_by(name): the names of a set in ascending order.
RECURSIVE SortNames(_)
SortNames(names) ==
    IF names = {} THEN <<>>
    ELSE LET m == CHOOSE x \in names : \A y \in names \ {x} : StrLess(x, y)
         IN  <<m>> \o SortNames(names \ {m})

\* current_link.exists() in a file system S with link cur.
link_exists(S, cur) == cur.link /\ FsExists(S, cur.target)

\* get_current_toolchain: None when the link does not resolve, else the
\* file name of the link's target.
current_toolchain(S, cur) ==
    IF ~link_exists(S, cur) THEN None ELSE file_name(cur.target)

get_current_toolchain == current_toolchain(FsNow, current)

\* The entries read_dir yields below the toolchains root that are
\* directories, the `current` link left out.
ToolchainEntries(S) ==
    { p[1] : p \in { q \in S.dirs : Len(q) = 1 /\ q[1] # "current" } }

\* list_toolchains without its sort_by: the entries in the order read_dir
\* may yield them, here the descending one.  The variant the order of the
\* list is tested against.
toolchain_list_unsorted(S, cur) ==
    LET names == SortNames(ToolchainEntries(S))
    IN  [i \in 1..Len(names) |->
            [name |-> names[Len(names) + 1 - i],
             is_current |-> current_toolchain(S, cur) = Some(names[Len(names) + 1 - i])]]

\* list_toolchains: [name, is_current] for every entry, sorted by name.
toolchain_list(S, cur) ==
    LET names == SortNames(ToolchainEntries(S))
    IN  [i \in 1..Len(names) |->
            [name |-> names[i],
             is_current |-> current_toolchain(S, cur) = Some(names[i])]]

list_toolchains == toolchain_list(FsNow, current)

\* get_prunable_toolchains: the names of list_toolchains other than the
\* current one, in the same order.
prunable_toolchains(S, cur) ==
    LET all  == toolchain_list(S, cur)
        keep == SelectSeq(all, LAMBDA tc : Some(tc.name) # current_toolchain(S, cur))
    IN  [i \in 1..Len(keep) |-> keep[i].name]

get_prunable_toolchains == prunable_toolchains(FsNow, current)

\* toolchain_exists
toolchain_exists(S, version) == FsExists(S, toolchain_dir(version))

\* delete_toolchain without its "cannot delete the current toolchain"
\* refusal: the variant the refusal property is tested against.
delete_toolchain_unguarded(S, cur, version, io) ==
    IF ~FsExists(S, toolchain_dir(version)) THEN [res |-> "not_found", fs |-> S]
    ELSE IF ~io THEN [res |-> "io_error", fs |-> S]
    ELSE [res |-> "ok", fs |-> remove_dir_all(S, toolchain_dir(version))]

\* delete_toolchain: not found, refused for the current toolchain, or the
\* directory is removed; io tells whether remove_dir_all succeeds.
delete_toolchain(S, cur, version, io) ==
    IF ~FsExists(S, toolchain_dir(version)) THEN [res |-> "not_found", fs |-> S]
    ELSE IF current_toolchain(S, cur) = Some(version)
    THEN [res |-> "is_current", fs |-> S]
    ELSE IF ~io THEN [res |-> "io_error", fs |-> S]
    ELSE [res |-> "ok", fs |-> remove_dir_all(S, toolchain_dir(version))]

----------------------------------------------------------------------------
(* The repository mirror (git_utils.rs).  References are kept under their  *)
(* full names ("refs/tags/v1"), each with the commit it peels to.          *)

CommitA == "a1b2c3d4e5f60718293a4b5c6d7e8f9012345678"
CommitB == "0f1e2d3c4b5a69788796a5b4c3d2e1f087654321"
CommitOld == "77aa88bb99cc00dd11ee22ff33445566778899aa"
CommitNew == "c0ffee11223344556677889900aabbccddeeff00"

\* The commits whose tree holds hooks/zircon.sh.
HookCommits == {CommitA, CommitB, CommitNew}

DefaultUrl == "https://github.com/zirco-lang/zrc.git"

\* The repository at the default URL when the model starts: its branches,
\* its tags, its commits.
ZrcRepository ==
    [heads |-> [b \in {"main"} |-> CommitB],
     tags  |-> [t \in {"v0", "v1", "rel/v1"} |->
                   IF t = "v0" THEN CommitOld ELSE IF t = "v1" THEN CommitA ELSE CommitB],
     commits |-> {CommitA, CommitB, CommitOld},
     default |-> "main"]

\* A repository other than the default one, as --zrc-repo names it: a fork
\* with its own main and its own tag v1.
ForkUrl == "https://example.org/fork/zrc.git"

ForkRepository ==
    [heads |-> [b \in {"main"} |-> CommitNew],
     tags  |-> [t \in {"v1"} |-> CommitNew],
     commits |-> {CommitNew},
     default |-> "main"]

RepoUrls == {DefaultUrl, ForkUrl}

\* The upstream repository at a URL, as it is now.
Upstream(url) == upstream[url]

NoMirror == [cloned |-> FALSE, origin |-> "", refs |-> <<>>, odb |-> {}, head |-> ""]

\* f with g's bindings laid over it.
Override(f, g) ==
    [x \in DOMAIN f \cup DOMAIN g |-> IF x \in DOMAIN g THEN g[x] ELSE f[x]]

\* The references a fetch with refspecs refs/heads/*:refs/remotes/origin/*
\* and refs/tags/*:refs/tags/* writes.
FetchedRefs(up) ==
    LET remotes == { "refs/remotes/origin/" \o b : b \in DOMAIN up.heads }
        tags    == { "refs/tags/" \o t : t \in DOMAIN up.tags }
    IN  [r \in remotes \cup tags |->
            IF r \in remotes
            THEN up.heads[CHOOSE b \in DOMAIN up.heads : r = "refs/remotes/origin/" \o b]
            ELSE up.tags[CHOOSE t \in DOMAIN up.tags : r = "refs/tags/" \o t]]

\* clone_or_open: an existing mirror is opened as it is; otherwise the
\* repository at url is cloned, its default branch checked out.
clone_or_open(m, url) ==
    IF m.cloned THEN m
    ELSE LET up == Upstream(url)
         IN  [cloned |-> TRUE,
              origin |-> url,
              odb    |-> up.commits,
              refs   |-> Override(FetchedRefs(up),
                                  [r \in {"refs/heads/" \o up.default} |-> up.heads[up.default]]),
              head   |-> up.heads[up.default]]

\* fetch: the remote named origin, into the remote-tracking and tag references.
fetch(m) ==
    [m EXCEPT !.refs = Override(@, FetchedRefs(Upstream(m.origin))),
              !.odb  = @ \cup Upstream(m.origin).commits]

\* Repository::find_reference
find_reference(m, name) ==
    IF name \in DOMAIN m.refs THEN Some(name) ELSE None

\* Repository::resolve_reference_from_short_name: the first of git's lookup
\* forms that names a reference.
ShortNameForms(short) ==
    << short, "refs/" \o short, "refs/tags/" \o short, "refs/heads/" \o short,
       "refs/remotes/" \o short, "refs/remotes/" \o short \o "/HEAD" >>

resolve_reference_from_short_name(m, short) ==
    LET forms == ShortNameForms(short)
        hits  == { i \in 1..Len(forms) : forms[i] \in DOMAIN m.refs }
    IN  IF hits = {} THEN None
        ELSE Some(forms[CHOOSE i \in hits : \A j \in hits : i <= j])

HexDigits == "0123456789abcdefABCDEF"

\* A hex digit as git prints it: in lower case.
LowerHex ==
    [c \in { CharAt(HexDigits, k) : k \in 1..Len(HexDigits) } |->
        IF c = "A" THEN "a" ELSE IF c = "B" THEN "b" ELSE IF c = "C" THEN "c"
        ELSE IF c = "D" THEN "d" ELSE IF c = "E" THEN "e" ELSE IF c = "F" THEN "f"
        ELSE c]

\* Oid::to_string of the id a string of hex digits parses to.
RECURSIVE to_string(_)
to_string(s) ==
    IF Len(s) = 0 THEN "" ELSE LowerHex[CharAt(s, 1)] \o to_string(SubSeq(s, 2, Len(s)))

RECURSIVE AllHex(_, _)
AllHex(s, i) ==
    IF i > Len(s) THEN TRUE
    ELSE (\E k \in 1..Len(HexDigits) : CharAt(HexDigits, k) = CharAt(s, i))
         /\ AllHex(s, i + 1)

OidLen == 40

RECURSIVE ZeroPad(_)
ZeroPad(s) == IF Len(s) >= OidLen THEN s ELSE ZeroPad(s \o "0")

\* git2::Oid::from_str: up to 40 hex digits of either case, padded with
\* zeros; the id is written the way Oid::to_string prints it.
Oid_from_str(s) ==
    IF Len(s) >= 1 /\ Len(s) <= OidLen /\ AllHex(s, 1)
    THEN Some(to_string(ZeroPad(s))) ELSE None

\* checkout_ref with the short name tried before the remote-tracking
\* branch: the variant the order of checkout_ref is tested against.
checkout_ref_short_name_first(m, ref_name) ==
    LET remote_ref == find_reference(m, "refs/remotes/origin/" \o ref_name)
        short      == resolve_reference_from_short_name(m, ref_name)
        oid        == Oid_from_str(ref_name)
    IN  IF short.some
        THEN [ok |-> TRUE, m |-> [m EXCEPT !.head = m.refs[short.val]]]
        ELSE IF remote_ref.some
        THEN [ok |-> TRUE, m |-> [m EXCEPT !.head = m.refs[remote_ref.val]]]
        ELSE IF oid.some /\ oid.val \in m.odb
        THEN [ok |-> TRUE, m |-> [m EXCEPT !.head = oid.val]]
        ELSE [ok |-> FALSE, m |-> m]

\* checkout_ref: the remote-tracking branch first, then the short name,
\* then the commit id.  The result is the mirror with its new HEAD.
checkout_ref(m, ref_name) ==
    LET remote_ref == find_reference(m, "refs/remotes/origin/" \o ref_name)
        short      == resolve_reference_from_short_name(m, ref_name)
        oid        == Oid_from_str(ref_name)
    IN  IF remote_ref.some
        THEN [ok |-> TRUE, m |-> [m EXCEPT !.head = m.refs[remote_ref.val]]]
        ELSE IF short.some
        THEN [ok |-> TRUE, m |-> [m EXCEPT !.head = m.refs[short.val]]]
        ELSE IF oid.some /\ oid.val \in m.odb
        THEN [ok |-> TRUE, m |-> [m EXCEPT !.head = oid.val]]
        ELSE [ok |-> FALSE, m |-> m]

ShortLen == 8

\* get_current_commit_short
get_current_commit_short(m) == SubSeq(m.head, 1, ShortLen)

Min(a, b) == IF a <= b THEN a ELSE b

\* determine_ref_type with the commit probe before the tag probe: the
\* variant the order of the classifier is tested against.
determine_ref_type_commit_first(m, ref_name) ==
    LET oid   == Oid_from_str(ref_name)
        short == resolve_reference_from_short_name(m, ref_name)
    IN  IF oid.some /\ oid.val \in m.odb
        THEN [kind |-> "Commit", name |-> SubSeq(ref_name, 1, Min(ShortLen, Len(ref_name)))]
        ELSE IF find_reference(m, "refs/tags/" \o ref_name).some
        THEN [kind |-> "Tag", name |-> ref_name]
        ELSE IF find_reference(m, "refs/heads/" \o ref_name).some
                \/ find_reference(m, "refs/remotes/origin/" \o ref_name).some
        THEN [kind |-> "Branch", name |-> ref_name]
        ELSE IF short.some /\ StartsWith(short.val, "refs/tags/")
        THEN [kind |-> "Tag", name |-> ref_name]
        ELSE [kind |-> "Branch", name |-> ref_name]

\* determine_ref_type
determine_ref_type(m, ref_name) ==
    LET oid   == Oid_from_str(ref_name)
        short == resolve_reference_from_short_name(m, ref_name)
    IN  IF find_reference(m, "refs/tags/" \o ref_name).some
        THEN [kind |-> "Tag", name |-> ref_name]
        ELSE IF find_reference(m, "refs/heads/" \o ref_name).some
                \/ find_reference(m, "refs/remotes/origin/" \o ref_name).some
        THEN [kind |-> "Branch", name |-> ref_name]
        ELSE IF oid.some /\ oid.val \in m.odb
        THEN [kind |-> "Commit", name |-> SubSeq(ref_name, 1, Min(ShortLen, Len(ref_name)))]
        ELSE IF short.some /\ StartsWith(short.val, "refs/tags/")
        THEN [kind |-> "Tag", name |-> ref_name]
        ELSE [kind |-> "Branch", name |-> ref_name]

\* The name of BuildCmd::dispatch with the branch name taken as it is: the
\* variant the form of branch names is tested against.
BuildVersion_unsanitized(m, reference) ==
    LET ref_type == determine_ref_type(m, reference)
    IN  IF ref_type.kind = "Tag" THEN ref_type.name
        ELSE IF ref_type.kind = "Branch"
        THEN ref_type.name \o "@" \o get_current_commit_short(m)
        ELSE ref_type.name

\* The toolchain name BuildCmd::dispatch derives.
BuildVersion(m, reference) ==
    LET ref_type == determine_ref_type(m, reference)
    IN  IF ref_type.kind = "Tag" THEN ref_type.name
        ELSE IF ref_type.kind = "Branch"
        THEN replace_slash(ref_type.name) \o "@" \o get_current_commit_short(m)
        ELSE ref_type.name

----------------------------------------------------------------------------
(* The commands, as functions of the state they start in.  A command ends  *)
(* with a result, or reaches create_link (link = TRUE) with the file       *)
(* system fs and the mirror m it has made by then.                         *)

Outcome(res, S, m, dest, link) ==
    [res |-> res, fs |-> S, m |-> m, dest |-> dest, link |-> link]

\* SwitchCmd::dispatch
SwitchRun(S, m, version) ==
    IF ~toolchain_exists(S, version)
    THEN Outcome("not_found", S, m, toolchain_dir(version), FALSE)
    ELSE Outcome("ok", S, m, toolchain_dir(version), TRUE)

\* DeleteCmd::dispatch
DeleteRun(S, cur, m, version, io) ==
    LET r == delete_toolchain(S, cur, version, io)
    IN  Outcome(r.res, r.fs, m, toolchain_dir(version), FALSE)

\* The deletion loop of PruneCmd::dispatch: the first error ends it.
RECURSIVE prune_loop(_, _, _, _, _)
prune_loop(S, cur, names, i, failing) ==
    IF i > Len(names) THEN [res |-> "ok", fs |-> S]
    ELSE LET r == delete_toolchain(S, cur, names[i], names[i] \notin failing)
         IN  IF r.res # "ok" THEN r
             ELSE prune_loop(r.fs, cur, names, i + 1, failing)

UpperCase == "ABCDEFGHIJKLMNOPQRSTUVWXYZ"
LowerCase == "abcdefghijklmnopqrstuvwxyz"

\* char::to_lowercase of the upper-case letters.
LowerOf ==
    [c \in { CharAt(UpperCase, k) : k \in 1..Len(UpperCase) } |->
        CharAt(LowerCase, CHOOSE k \in 1..Len(UpperCase) : CharAt(UpperCase, k) = c)]

\* str::to_lowercase
RECURSIVE to_lowercase(_)
to_lowercase(s) ==
    IF Len(s) = 0 THEN ""
    ELSE (IF CharAt(s, 1) \in DOMAIN LowerOf THEN LowerOf[CharAt(s, 1)] ELSE CharAt(s, 1))
         \o to_lowercase(SubSeq(s, 2, Len(s)))

WhiteSpace == {" ", "\t", "\n", "\r"}

\* str::trim: the white space at both ends is taken off.
RECURSIVE trim(_)
trim(s) ==
    IF Len(s) = 0 THEN ""
    ELSE IF CharAt(s, 1) \in WhiteSpace THEN trim(SubSeq(s, 2, Len(s)))
    ELSE IF CharAt(s, Len(s)) \in WhiteSpace THEN trim(SubSeq(s, 1, Len(s) - 1))
    ELSE s

\* io::stdin().read_line: what the user typed, with the end of the line.
read_line(answer) == answer \o "\n"

\* The answers that confirm the prompt of prune: the line read, trimmed
\* and in lower case, is y or yes.
Confirms(answer) == to_lowercase(trim(read_line(answer))) \in {"y", "yes"}

\* PruneCmd::dispatch without its prompt: the variant the confirmation of
\* prune is tested against.
PruneRun_unprompted(S, cur, m, yes, answer, failing) ==
    LET to_prune == prunable_toolchains(S, cur)
    IN  IF Len(to_prune) = 0 THEN Outcome("nothing", S, m, <<>>, FALSE)
        ELSE LET r == prune_loop(S, cur, to_prune, 1, failing)
             IN  Outcome(r.res, r.fs, m, <<>>, FALSE)

\* PruneCmd::dispatch
PruneRun(S, cur, m, yes, answer, failing) ==
    LET to_prune == prunable_toolchains(S, cur)
    IN  IF Len(to_prune) = 0 THEN Outcome("nothing", S, m, <<>>, FALSE)
        ELSE IF ~yes /\ ~Confirms(answer) THEN Outcome("cancelled", S, m, <<>>, FALSE)
        ELSE LET r == prune_loop(S, cur, to_prune, 1, failing)
             IN  Outcome(r.res, r.fs, m, <<>>, FALSE)

\* ImportCmd::dispatch with the activation placed before the structural
\* validation: the variant the no-activation-on-failure property is
\* tested against.
ImportRun_activates_first(S, m, ar) ==
    LET version == ImportVersion(ar)
        dest    == toolchain_dir(version)
        made    == create_dir_all(S, dest)
        ex      == extract_archive(made, dest, ar)
    IN  IF toolchain_exists(S, version) THEN Outcome("already_exists", S, m, dest, FALSE)
        ELSE IF ~ex.ok THEN Outcome("extract_failed", ex.fs, m, dest, FALSE)
        ELSE IF ~validate_toolchain_structure(ex.fs, dest)
        THEN Outcome("invalid_structure", ex.fs, m, dest, TRUE)
        ELSE Outcome("ok", ex.fs, m, dest, TRUE)

\* ImportCmd::dispatch without its last step, create_link: the variant the
\* activation by import is tested against.
ImportRun_unactivated(S, m, ar) ==
    LET version == ImportVersion(ar)
        dest    == toolchain_dir(version)
        made    == create_dir_all(S, dest)
        ex      == extract_archive(made, dest, ar)
    IN  IF toolchain_exists(S, version) THEN Outcome("already_exists", S, m, dest, FALSE)
        ELSE IF ~ex.ok THEN Outcome("extract_failed", ex.fs, m, dest, FALSE)
        ELSE IF ~validate_toolchain_structure(ex.fs, dest)
        THEN Outcome("invalid_structure", ex.fs, m, dest, FALSE)
        ELSE Outcome("ok", ex.fs, m, dest, FALSE)

\* ImportCmd::dispatch without its toolchain_exists refusal: the variant the
\* already-exists property is tested against.
ImportRun_overwrites(S, m, ar) ==
    LET version == ImportVersion(ar)
        dest    == toolchain_dir(version)
        made    == create_dir_all(S, dest)
        ex      == extract_archive(made, dest, ar)
    IN  IF ~ex.ok THEN Outcome("extract_failed", ex.fs, m, dest, FALSE)
        ELSE IF ~validate_toolchain_structure(ex.fs, dest)
        THEN Outcome("invalid_structure", ex.fs, m, dest, FALSE)
        ELSE Outcome("ok", ex.fs, m, dest, TRUE)

\* ImportCmd::dispatch
ImportRun(S, m, ar) ==
    LET version == ImportVersion(ar)
        dest    == toolchain_dir(version)
        made    == create_dir_all(S, dest)
        ex      == extract_archive(made, dest, ar)
    IN  IF toolchain_exists(S, version) THEN Outcome("already_exists", S, m, dest, FALSE)
        ELSE IF ~ex.ok THEN Outcome("extract_failed", ex.fs, m, dest, FALSE)
        ELSE IF ~validate_toolchain_structure(ex.fs, dest)
        THEN Outcome("invalid_structure", ex.fs, m, dest, FALSE)
        ELSE Outcome("ok", ex.fs, m, dest, TRUE)

\* The name install gives a release tag.
InstallVersion(tag) == tag \o "-prebuilt"

\* InstallCmd::dispatch; dl is the downloaded archive, or None when the
\* download fails.
InstallRun(S, m, tag, dl) ==
    LET version == InstallVersion(tag)
        dest    == toolchain_dir(version)
        made    == create_dir_all(S, dest)
        ex      == install_extract(made, dest, dl.val.entries, 1, dl.val.sha256,
                                   dl.val.truncated)
    IN  IF ~dl.some THEN Outcome("download_failed", S, m, dest, FALSE)
        ELSE IF FsExists(S, dest) THEN Outcome("already_exists", S, m, dest, FALSE)
        ELSE IF ~ex.ok THEN Outcome("extract_failed", ex.fs, m, dest, FALSE)
        ELSE IF ~verify_toolchain(ex.fs, dest)
        THEN Outcome("invalid_structure", ex.fs, m, dest, FALSE)
        ELSE Outcome("ok", ex.fs, m, dest, TRUE)

\* run_build_hook: the hook of the checked-out commit, run with the
\* toolchain directory as its destination.  A hook that exits with status
\* zero has installed bin/zrc and include/; one that fails leaves what it
\* had installed by then.
run_build_hook(S, m, dest, hookOk) ==
    IF m.head \notin HookCommits THEN Err(S)
    ELSE IF ~hookOk THEN Err(create_dir_all(S, dest \o <<"bin">>))
    ELSE Ok(write_file(create_dir_all(create_dir_all(S, dest \o <<"bin">>),
                                      dest \o <<"include">>),
                       dest \o <<"bin", "zrc">>, m.head))

\* BuildCmd::dispatch with the error of fetch dropped: the build goes on
\* to checkout_ref with the mirror as it was opened.  The variant the end
\* of the build on a failed fetch is tested against.
BuildRun_fetch_ignored(S, m, reference, url, fault) ==
    LET opened  == clone_or_open(m, url)
        fetched == IF fault = "fetch" THEN opened ELSE fetch(opened)
        co      == checkout_ref(fetched, reference)
        version == BuildVersion(co.m, reference)
        dest    == toolchain_dir(version)
        made    == create_dir_all(S, dest)
        hook    == run_build_hook(made, co.m, dest, fault # "hook")
    IN  IF fault = "deps" THEN Outcome("deps_missing", S, m, <<>>, FALSE)
        ELSE IF fault = "clone" /\ ~m.cloned THEN Outcome("clone_failed", S, m, <<>>, FALSE)
        ELSE IF ~co.ok THEN Outcome("ref_not_found", S, fetched, <<>>, FALSE)
        ELSE IF ~hook.ok THEN Outcome("hook_failed", hook.fs, co.m, dest, FALSE)
        ELSE Outcome("ok", hook.fs, co.m, dest, TRUE)

\* BuildCmd::dispatch; fault names the step the environment makes fail.
BuildRun(S, m, reference, url, fault) ==
    LET opened  == clone_or_open(m, url)
        fetched == fetch(opened)
        co      == checkout_ref(fetched, reference)
        version == BuildVersion(co.m, reference)
        dest    == toolchain_dir(version)
        made    == create_dir_all(S, dest)
        hook    == run_build_hook(made, co.m, dest, fault # "hook")
    IN  IF fault = "deps" THEN Outcome("deps_missing", S, m, <<>>, FALSE)
        ELSE IF fault = "clone" /\ ~m.cloned THEN Outcome("clone_failed", S, m, <<>>, FALSE)
        ELSE IF fault = "fetch" THEN Outcome("fetch_failed", S, opened, <<>>, FALSE)
        ELSE IF ~co.ok THEN Outcome("ref_not_found", S, fetched, <<>>, FALSE)
        ELSE IF ~hook.ok THEN Outcome("hook_failed", hook.fs, co.m, dest, FALSE)
        ELSE Outcome("ok", hook.fs, co.m, dest, TRUE)

----------------------------------------------------------------------------
(* create_link (unix): its two file system operations, and both in a row.  *)

\* "Remove existing link if present": remove_file(dst).ok() drops the
\* error, so a link that could not be removed (rm = FALSE) stays.
create_link_remove(cur, rm) == IF cur.link /\ rm THEN NoLink ELSE cur

\* symlink with its error dropped, as that of remove_file is: a link that
\* is still in place stays and the call reports success.  The variant the
\* effect of switch is tested against.
create_link_symlink_unchecked(cur, src, io) ==
    IF cur.link \/ ~io THEN [res |-> "ok", cur |-> cur]
    ELSE [res |-> "ok", cur |-> LinkTo(src)]

\* std::os::unix::fs::symlink(src, dst): fails when dst still exists, or
\* when the file system refuses (io = FALSE).
create_link_symlink(cur, src, io) ==
    IF cur.link THEN [res |-> "link_failed", cur |-> cur]
    ELSE IF ~io THEN [res |-> "link_failed", cur |-> cur]
    ELSE [res |-> "ok", cur |-> LinkTo(src)]

\* create_link(src, dst) with dst the `current` link.
create_link(cur, src, env) ==
    create_link_symlink(create_link_remove(cur, env.rm), src, env.io)

----------------------------------------------------------------------------
(* The inputs the commands are run with.                                   *)

File(name) == [name |-> name, dir |-> FALSE]
Dir(name) == [name |-> name, dir |-> TRUE]

Archive(file, digest, entries, truncated) ==
    [file |-> file, sha256 |-> digest, entries |-> entries, truncated |-> truncated]

GoodTgz == Archive("zrc.tar.gz",
    "770e607624d689265ca6c44884d0807d9b054d23c473c106c72be9de08b7376c",
    <<Dir("bin/"), File("bin/zrc")>>, FALSE)
NoBinZip == Archive("nobin.zip",
    "8fd14903803695248a27ef52135fae3342c2e08291fedff9990b71a5d1792d23",
    <<File("lib/x")>>, FALSE)
EvilTar == Archive("evil.tar",
    "a9a49d2fd0c3fea836bce58a4ae9923093ec76d026f8c6f23b4bce19b2bf8873",
    <<File("bin/zrc"), File("../../etc/passwd"), File("../sibling/bin/zrc")>>, FALSE)
EvilTgz == Archive("evil.tgz",
    "bcc0298f5ffe5eb8fca83b350b53c3b6b167da659251507496aad140a87178a6",
    <<File("bin/zrc"), File("../../etc/passwd"), File("../sibling/bin/zrc")>>, FALSE)
EvilZip == Archive("evil.zip",
    "88283bf7b44d361b00c445a7957f6d650785c2ec355ce5483fdcddb52861355a",
    <<File("../../etc/passwd"), File("../sibling/bin/zrc"), Dir("bin/"), File("bin/zrc")>>, FALSE)
AbsTar == Archive("abs.tar",
    "21f6030d06c9bba577257c43fb5c72c292965ee7eab14d39a6d3b941ef1eb8f4",
    <<File("bin/zrc"), File("/etc/passwd")>>, FALSE)
AbsTgz == Archive("abs.tgz",
    "85af5428ea48318fac94ef95c8d9eb331e13cd7424de1a74d97d3b2ed9a4ce96",
    <<File("bin/zrc"), File("/etc/passwd")>>, FALSE)
AbsZip == Archive("abs.zip",
    "bab31af4bda516fa20eef13f43d80a15f07b991f4e15a3b85f27ba0e074bcef0",
    <<File("/etc/passwd"), Dir("bin/"), File("bin/zrc")>>, FALSE)
BinOnlyTgz == Archive("binonly.tar.gz",
    "1053c672906d9855e73c3192533d7232e5cd46928a7d820244bc204623e83fe3",
    <<Dir("bin/"), File("bin/readme")>>, FALSE)
PartTgz == Archive("part.tar.gz",
    "37a680133bd09342f934afb8dd2c7d9e1b624da5f35e3a38adb103e37c055ed1",
    <<Dir("bin/")>>, TRUE)

\* What the file system may do to create_link: the removal of the old link
\* succeeds or not (rm), the symlink call succeeds or not (io).
LinkEnvs == { [rm |-> TRUE, io |-> TRUE], [rm |-> TRUE, io |-> FALSE],
              [rm |-> FALSE, io |-> TRUE] }
LinkOk == [rm |-> TRUE, io |-> TRUE]

\* The inputs of the registry's specification.
ImportArchives == {GoodTgz, NoBinZip}
InstallTags == {"nightly"}
Downloads == {None, Some(GoodTgz), Some(PartTgz)}
BuildRefs == {"v1", "rel/v1", "nope"}
BuildFaults == {"none", "clone", "fetch", "hook"}
VersionArgs ==
    { ImportVersion(a) : a \in ImportArchives }
    \cup { InstallVersion(t) : t \in InstallTags }
    \cup {"v1", "rel/v1", "rel", "ghost"}
\* What is typed at the prompt of prune; "-y" stands for the --yes flag, with
\* which nothing is asked.
Answers == {"y", "n", "YES", " yes", "-y"}

\* The inputs of the archive specification.
EvilArchives == {EvilTar, EvilTgz, EvilZip}
AbsArchives == {AbsTar, AbsTgz, AbsZip}
ArchiveInputs == EvilArchives \cup AbsArchives \cup {GoodTgz, PartTgz, BinOnlyTgz, NoBinZip}
ArchiveDownloads ==
    {Some(GoodTgz), Some(EvilTgz), Some(AbsTgz), Some(BinOnlyTgz), Some(NoBinZip)}

----------------------------------------------------------------------------
(* The state machine.                                                      *)

\* The zircon root before anything is made in it.
NoRoot == [dirs |-> {}, files |-> <<>>, outside |-> {}, link |-> NoLink]

NoCommand == [op |-> "none", res |-> "", dest |-> <<>>, before |-> NoLink]

Init ==
    /\ dirs = {}
    /\ files = <<>>
    /\ current = NoLink
    /\ outside = {}
    /\ mirror = NoMirror
    /\ upstream = [url \in RepoUrls |->
                       IF url = DefaultUrl THEN ZrcRepository ELSE ForkRepository]
    /\ root = NoRoot
    /\ pc = "idle"
    /\ pending = NoCommand
    /\ last = NoCommand

\* What is remembered of the last command: its name, its result, and the
\* `current` link it found.
Record(op, res) == [op |-> op, res |-> res, dest |-> <<>>, before |-> current]

\* The result of a command: its own, or that of create_link when the
\* command got as far as that.
Result(out, link) == IF out.res = "ok" THEN link.res ELSE out.res

\* The sets of toolchains whose removal the file system may refuse.
Failing == {{}} \cup { {n} : n \in ToolchainEntries(FsNow) }

\* The part of the model's bound: no command fills the toolchains root
\* beyond MaxToolchains entries.
Fits(out) == Cardinality(ToolchainEntries(out.fs)) <= MaxToolchains

\* The commands that call ensure_directories, and the results with which
\* they end before the call: build after its check of the dependencies,
\* install first of all, import after its check of the name.
EnsuresDirectories(op, res) ==
    \/ op = "build" /\ res # "deps_missing"
    \/ op = "install"
    \/ op = "import" /\ res # "already_exists"

\* The outcome of a command with its call of ensure_directories: when the
\* call fails the command ends there.
Ensured(op, out) ==
    IF EnsuresDirectories(op, out.res) /\ ~ensure_directories(root).ok
    THEN Outcome("dirs_failed", FsNow, mirror, out.dest, FALSE)
    ELSE out

\* The zircon root after a command with this outcome.
RootAfter(op, out) ==
    IF EnsuresDirectories(op, out.res) THEN ensure_directories(root).fs ELSE root

\* A command from start to end.
Run(op, cmd, env) ==
    LET out == Ensured(op, cmd) IN
    /\ pc = "idle"
    /\ Fits(out)
    /\ out.link \/ env = LinkOk
    /\ dirs' = out.fs.dirs
    /\ files' = out.fs.files
    /\ outside' = out.fs.outside
    /\ mirror' = out.m
    /\ upstream' = upstream
    /\ root' = RootAfter(op, cmd)
    /\ LET link == IF out.link THEN create_link(current, out.dest, env)
                   ELSE [res |-> out.res, cur |-> current]
       IN  /\ current' = link.cur
           /\ last' = Record(op, Result(out, link))
    /\ UNCHANGED <<pc, pending>>

Switch(version, env) == Run("switch", SwitchRun(FsNow, mirror, version), env)

Delete(version, io) ==
    Run("delete", DeleteRun(FsNow, current, mirror, version, io), LinkOk)

Prune(answer, failing) ==
    Run("prune", PruneRun(FsNow, current, mirror, answer = "-y", answer, failing), LinkOk)

Import(ar, env) == Run("import", ImportRun(FsNow, mirror, ar), env)

Install(tag, dl, env) == Run("install", InstallRun(FsNow, mirror, tag, dl), env)

Build(reference, fault, env) ==
    /\ fault = "clone" => ~mirror.cloned
    /\ Run("build", BuildRun(FsNow, mirror, reference, DefaultUrl, fault), env)

\* `zircon list`: list_toolchains is read and printed; nothing changes.
List ==
    /\ pc = "idle"
    /\ last' = Record("list", "ok")
    /\ UNCHANGED <<dirs, files, current, outside, mirror, upstream, root, pc, pending>>

\* The outcomes of create_link a command can meet: one when it never
\* gets there.
EnvsOf(out) == IF out.link THEN LinkEnvs ELSE {LinkOk}

Next ==
    \/ \E v \in VersionArgs :
           \E env \in EnvsOf(SwitchRun(FsNow, mirror, v)) : Switch(v, env)
    \/ \E v \in VersionArgs, io \in BOOLEAN : Delete(v, io)
    \/ \E answer \in Answers, failing \in Failing : Prune(answer, failing)
    \/ \E ar \in ImportArchives :
           \E env \in EnvsOf(ImportRun(FsNow, mirror, ar)) : Import(ar, env)
    \/ \E tag \in InstallTags, dl \in Downloads :
           \E env \in EnvsOf(InstallRun(FsNow, mirror, tag, dl)) : Install(tag, dl, env)
    \/ \E reference \in BuildRefs, fault \in BuildFaults :
           \E env \in EnvsOf(BuildRun(FsNow, mirror, reference, DefaultUrl, fault)) :
               Build(reference, fault, env)
    \/ List

Spec == Init /\ [][Next]_vars

----------------------------------------------------------------------------
(* The archive specification: import and install of archives with unsafe   *)
(* members, and switch and delete among what they leave.                   *)

ArchiveVersions ==
    { ImportVersion(a) : a \in ArchiveInputs } \cup { InstallVersion(t) : t \in InstallTags }

NextArchive ==
    \/ \E ar \in ArchiveInputs : Import(ar, LinkOk)
    \/ \E tag \in InstallTags, dl \in ArchiveDownloads : Install(tag, dl, LinkOk)
    \/ \E v \in ArchiveVersions : Delete(v, TRUE)

SpecArchive == Init /\ [][NextArchive]_vars

----------------------------------------------------------------------------
(* The activation specification: create_link as the two file system        *)
(* operations it is, with the process free to end between them.            *)

\* A command up to the point inside create_link where the old link has been
\* removed and the new one is not yet made.
Begin(op, out, rm) ==
    /\ pc = "idle"
    /\ Fits(out)
    /\ out.link
    /\ Ensured(op, out).link
    /\ root' = RootAfter(op, out)
    /\ rm \/ current.link
    /\ dirs' = out.fs.dirs
    /\ files' = out.fs.files
    /\ outside' = out.fs.outside
    /\ mirror' = out.m
    /\ upstream' = upstream
    /\ current' = create_link_remove(current, rm)
    /\ pc' = "link"
    /\ pending' = [op |-> op, res |-> "", dest |-> out.dest, before |-> current]
    /\ UNCHANGED last

\* The second half of create_link: the symlink call.
Symlink(io) ==
    /\ pc = "link"
    /\ LET r == create_link_symlink(current, pending.dest, io)
       IN  /\ current' = r.cur
           /\ last' = [pending EXCEPT !.res = r.res]
    /\ pc' = "idle"
    /\ pending' = NoCommand
    /\ UNCHANGED <<dirs, files, outside, mirror, upstream, root>>

\* The process is terminated between the two halves of create_link.
Terminate ==
    /\ pc = "link"
    /\ last' = [pending EXCEPT !.res = "killed"]
    /\ pc' = "idle"
    /\ pending' = NoCommand
    /\ UNCHANGED <<dirs, files, current, outside, mirror, upstream, root>>

NextLink ==
    \/ \E ar \in ImportArchives, rm \in BOOLEAN : Begin("import", ImportRun(FsNow, mirror, ar), rm)
    \/ \E v \in VersionArgs, rm \in BOOLEAN : Begin("switch", SwitchRun(FsNow, mirror, v), rm)
    \/ \E ar \in ImportArchives : Import(ar, LinkOk) /\ last'.res # "ok"
    \/ \E v \in VersionArgs, io \in BOOLEAN : Delete(v, io)
    \/ \E io \in BOOLEAN : Symlink(io)
    \/ Terminate

SpecLink == Init /\ [][NextLink]_vars

----------------------------------------------------------------------------
(* The repository specification: the upstream repository gets new commits, *)
(* branches and tags, and the mirror is synchronised, checked out and      *)
(* classified as build does it.                                            *)

\* CommitA the way a user may type it: in upper case.
UpperA == "A1B2C3D4E5F60718293A4B5C6D7E8F9012345678"

\* The references build is asked for.
GitRefs == {"main", "v1", "tags/v1", "rel/x", "rel-x", CommitA, UpperA, "nope"}

\* What is pushed upstream: commits on branches, and a tag whose name reads
\* like a commit id.
Pushes == { <<"main", CommitNew>>, <<"rel/x", CommitB>>, <<"rel-x", CommitB>> }
PushedTags == { <<CommitA, CommitB>> }

\* What is remembered of the last step on the mirror.
GitRecord(op, ref, res) == [op |-> op, res |-> res, ref |-> ref]

\* git push of a commit to a branch of the upstream repository.
Push(branch, commit) ==
    /\ pc = "idle"
    /\ IF branch \in DOMAIN upstream[DefaultUrl].heads
       THEN upstream[DefaultUrl].heads[branch] # commit
       ELSE TRUE
    /\ upstream' = [upstream EXCEPT
           ![DefaultUrl].heads = Override(@, [b \in {branch} |-> commit]),
           ![DefaultUrl].commits = @ \cup {commit}]
    /\ UNCHANGED <<dirs, files, current, outside, mirror, root, pc, pending, last>>

\* git push of a new tag to the upstream repository.
PushTag(tag, commit) ==
    /\ pc = "idle"
    /\ tag \notin DOMAIN upstream[DefaultUrl].tags
    /\ upstream' = [upstream EXCEPT
           ![DefaultUrl].tags = Override(@, [t \in {tag} |-> commit])]
    /\ UNCHANGED <<dirs, files, current, outside, mirror, root, pc, pending, last>>

\* clone_or_open and fetch, as BuildCmd::dispatch calls them; a fetch that
\* fails leaves the mirror as clone_or_open gave it.
Sync(fetchOk) ==
    /\ pc = "idle"
    /\ LET opened == clone_or_open(mirror, DefaultUrl)
       IN  mirror' = IF fetchOk THEN fetch(opened) ELSE opened
    /\ last' = GitRecord("sync", "", IF fetchOk THEN "ok" ELSE "fetch_failed")
    /\ UNCHANGED <<dirs, files, current, outside, upstream, root, pc, pending>>

\* checkout_ref on the mirror.
CheckoutRef(ref_name) ==
    /\ pc = "idle"
    /\ mirror.cloned
    /\ LET co == checkout_ref(mirror, ref_name)
       IN  /\ mirror' = co.m
           /\ last' = GitRecord("checkout", ref_name,
                                IF co.ok THEN "ok" ELSE "ref_not_found")
    /\ UNCHANGED <<dirs, files, current, outside, upstream, root, pc, pending>>

\* determine_ref_type on the mirror.
Classify(ref_name) ==
    /\ pc = "idle"
    /\ mirror.cloned
    /\ last' = GitRecord("classify", ref_name, determine_ref_type(mirror, ref_name).kind)
    /\ UNCHANGED <<dirs, files, current, outside, mirror, upstream, root, pc, pending>>

\* The steps of BuildCmd::dispatch from checkout_ref to the version name:
\* checkout_ref, get_current_commit_short, determine_ref_type and the name.
DeriveVersion(reference) ==
    /\ pc = "idle"
    /\ mirror.cloned
    /\ LET co == checkout_ref(mirror, reference)
       IN  /\ mirror' = co.m
           /\ last' = [op |-> "version", ref |-> reference,
                       res |-> IF co.ok THEN "ok" ELSE "ref_not_found",
                       version |-> IF co.ok THEN BuildVersion(co.m, reference) ELSE ""]
    /\ UNCHANGED <<dirs, files, current, outside, upstream, root, pc, pending>>

NextGit ==
    \/ \E p \in Pushes : Push(p[1], p[2])
    \/ \E t \in PushedTags : PushTag(t[1], t[2])
    \/ \E fetchOk \in BOOLEAN : Sync(fetchOk)
    \/ \E r \in GitRefs : CheckoutRef(r)
    \/ \E r \in GitRefs : Classify(r)
    \/ \E r \in GitRefs : DeriveVersion(r)

SpecGit == Init /\ [][NextGit]_vars

----------------------------------------------------------------------------
(* The self specification: zircon's own installation under self/, the      *)
(* link bin/zircon, and ensure_directories, next to a toolchain and the    *)
(* mirror.                                                                 *)

SelfGoodTgz == Archive("zircon-linux-x64.tar.gz",
    "5d41402abc4b2a76b9719d911017c592e3b0c44298fc1c149afbf4c8996fb924",
    <<Dir("bin/"), File("bin/zircon")>>, FALSE)
SelfNewZip == Archive("zircon-new.zip",
    "9f86d081884c7d659a2feaa0c55ad015a3bf4f1b2b0b822cd15d6c15b0f00a08",
    <<Dir("bin/"), File("bin/zircon")>>, FALSE)
SelfBinFileTar == Archive("binfile.tar",
    "2c26b46b68ffc68ff99b453c1d30413413422d706483bfa0f98a5e886266e7ae",
    <<File("bin")>>, FALSE)
SelfNoZirconTgz == Archive("tools.tgz",
    "fcde2b2edba56bf408601fb721fe9b5c338d10ee429ea04fae5511b68fbf8fb9",
    <<Dir("bin/"), File("bin/zrc")>>, FALSE)
SelfSevenZip == Archive("zircon.7z",
    "baa5a0964d3320fbc0c6a922140453c8513ea24ab8fd0577034804a967248096",
    <<Dir("bin/"), File("bin/zircon")>>, FALSE)
SelfPartTgz == Archive("zircon-part.tar.gz",
    "e3b98a4da31a127d4bde6e43033f66ba274cab0eb7eb1c70ec41402bf6273dd8",
    <<Dir("bin/")>>, TRUE)

SelfArchives ==
    {SelfGoodTgz, SelfNewZip, SelfBinFileTar, SelfNoZirconTgz, SelfSevenZip, SelfPartTgz}

\* extract_self_archive: .tar.gz and .tgz by the end of the file name, the
\* others by the extension.
extract_self_archive(S, dest, ar) ==
    IF EndsWith(ar.file, ".tar.gz") \/ EndsWith(ar.file, ".tgz")
    THEN extract_tar_gz(S, dest, ar)
    ELSE LET extension == Extension(ar.file)
         IN  IF extension = "zip" THEN extract_zip(S, dest, ar)
             ELSE IF extension = "tar" THEN extract_tar(S, dest, ar)
             ELSE Err(S)

\* cmd_self_import up to create_link: [res, fs, link].
SelfImportRun(R, ar) ==
    LET ens     == ensure_directories(R)
        cleared == IF FsExists(ens.fs, self_dir) THEN remove_dir_all(ens.fs, self_dir)
                   ELSE ens.fs
        made    == create_dir_all(cleared, self_dir)
        ex      == extract_self_archive(made, self_dir, ar)
    IN  IF ~ens.ok THEN [res |-> "dirs_failed", fs |-> ens.fs, link |-> FALSE]
        ELSE IF ~ex.ok THEN [res |-> "extract_failed", fs |-> ex.fs, link |-> FALSE]
        ELSE IF self_bin_dir \notin ex.fs.dirs
        THEN [res |-> "invalid_structure", fs |-> ex.fs, link |-> FALSE]
        ELSE IF ~FsExists(ex.fs, self_zircon_binary)
        THEN [res |-> "binary_missing", fs |-> ex.fs, link |-> FALSE]
        ELSE [res |-> "ok", fs |-> ex.fs, link |-> TRUE]

\* `zircon self import <archive>`
SelfImport(ar) ==
    /\ pc = "idle"
    /\ LET r    == SelfImportRun(root, ar)
           link == IF r.link THEN create_link(root.link, self_zircon_binary, LinkOk)
                   ELSE [res |-> r.res, cur |-> root.link]
       IN  /\ root' = [r.fs EXCEPT !.link = link.cur]
           /\ last' = Record("self_import", IF r.res = "ok" THEN link.res ELSE r.res)
    /\ UNCHANGED <<dirs, files, current, outside, mirror, upstream, pc, pending>>

\* cmd_bootstrap: ensure_directories and nothing else.
Bootstrap ==
    /\ pc = "idle"
    /\ LET ens == ensure_directories(root)
       IN  /\ root' = ens.fs
           /\ last' = Record("bootstrap", IF ens.ok THEN "ok" ELSE "dirs_failed")
    /\ UNCHANGED <<dirs, files, current, outside, mirror, upstream, pc, pending>>

NextSelf ==
    \/ Bootstrap
    \/ \E ar \in SelfArchives : SelfImport(ar)
    \/ \E ar \in ImportArchives : Import(ar, LinkOk)
    \/ \E fault \in {"none", "fetch"} : Build("v1", fault, LinkOk)

SpecSelf == Init /\ [][NextSelf]_vars

----------------------------------------------------------------------------
(* The remote specification: builds from the default repository and from   *)
(* a fork, while a branch with the name of a tag is pushed upstream.       *)

\* The references these builds are asked for.
RemoteRefs == {"v1", "main"}

\* A branch pushed upstream under the name of the tag v1.
ClashPushes == { <<"v1", CommitB>> }

\* The toolchain names these builds can leave.
RemoteVersions == {"v1", "main@0f1e2d3c", "main@c0ffee11"}

\* `zircon build --zrc-repo <url> <reference>`
BuildFrom(url, reference, fault) ==
    Run("build", BuildRun(FsNow, mirror, reference, url, fault), LinkOk)

NextRemote ==
    \/ \E p \in ClashPushes : Push(p[1], p[2])
    \/ \E url \in RepoUrls, reference \in RemoteRefs, fault \in {"none", "fetch"} :
           BuildFrom(url, reference, fault)
    \/ \E v \in RemoteVersions : Switch(v, LinkOk)
    \/ \E v \in RemoteVersions : Delete(v, TRUE)

SpecRemote == Init /\ [][NextRemote]_vars

----------------------------------------------------------------------------
(* Properties of the registry.                                             *)

\* C1: delete(name) with name the toolchain current() returns never
\* succeeds, and leaves the toolchain directories, their files and the
\* `current` link as they were.
C1_DeleteCurrentRefused ==
    [][\A v \in VersionArgs, io \in BOOLEAN :
          (last'.op = "delete" /\ get_current_toolchain = Some(v) /\ Delete(v, io))
              => /\ last'.res \in {"is_current", "not_found"}
                 /\ UNCHANGED <<dirs, files, current, outside>>]_vars

\* A delete of the current toolchain has been asked for and refused.
C1_Witness ==
    /\ last.op = "delete"
    /\ last.res = "is_current"
    /\ get_current_toolchain # None

\* The `current` link is absent or points to a directory with bin/zrc.
CurrentIsValid == current.link => verify_toolchain(FsNow, current.target)

\* C2: after any sequence of build, install, import, switch, delete and
\* prune, each run to its end, the `current` link does not exist or points
\* to a toolchain directory that has bin/ with the primary executable.
C2_CurrentAlwaysValid == pc = "idle" => CurrentIsValid

\* The results of the steps that fail before a toolchain directory is made,
\* and of those that fail after.
FailedEarly == {"clone_failed", "fetch_failed", "ref_not_found", "download_failed"}
FailedLate == {"hook_failed", "extract_failed", "invalid_structure"}

\* Nothing is activated and nothing is rolled back; dest, when the step got
\* as far as making it, is on disk.
NotActivated(res, dest) ==
    /\ current' = current
    /\ dirs \subseteq dirs'
    /\ \A p \in DOMAIN files : p \in DOMAIN files' /\ files'[p] = files[p]
    /\ res \in FailedLate => dest \in dirs'

\* C3: when a step of build, install or import fails (fetch, checkout,
\* hook, extraction, structural validation), `current` is the link it was
\* before the command, and the partly filled toolchain directory stays.
C3_FailedStepNotActivated ==
    [][/\ \A ar \in ImportArchives :
              (/\ last'.op = "import"
               /\ last'.res \in FailedEarly \cup FailedLate
               /\ Import(ar, LinkOk))
                  => NotActivated(last'.res, toolchain_dir(ImportVersion(ar)))
       /\ \A tag \in InstallTags, dl \in Downloads :
              (/\ last'.op = "install"
               /\ last'.res \in FailedEarly \cup FailedLate
               /\ Install(tag, dl, LinkOk))
                  => NotActivated(last'.res, toolchain_dir(InstallVersion(tag)))
       /\ \A reference \in BuildRefs, fault \in BuildFaults :
              (/\ last'.op = "build"
               /\ last'.res \in FailedEarly \cup FailedLate
               /\ Build(reference, fault, LinkOk))
                  => NotActivated(last'.res,
                                  toolchain_dir(BuildVersion(mirror', reference)))]_vars

\* A build, install or import has failed after it made its directory, with
\* a toolchain active before it, and that one is still the active one.
C3_Witness ==
    /\ last.op \in {"build", "install", "import"}
    /\ last.res \in FailedLate
    /\ last.before.link
    /\ current = last.before
    /\ get_current_toolchain # None

\* C4: prune never deletes the toolchain current() names: after prune the
\* directory `current` points to exists and `current` points to it.
C4_PruneKeepsCurrent ==
    [][(/\ last'.op = "prune"
        /\ get_current_toolchain # None
        /\ \E answer \in Answers, failing \in Failing : Prune(answer, failing))
           => /\ current' = current
              /\ current.target \in dirs']_vars

\* C5: prune deletes each candidate on its own: a candidate whose removal
\* does not fail is gone after a confirmed prune, whether or not the
\* removal of another candidate failed.
C5_PruneDeletesEachCandidate ==
    [][\A answer \in Answers, failing \in Failing :
          (/\ last'.op = "prune"
           /\ last'.res \notin {"nothing", "cancelled"}
           /\ Prune(answer, failing))
              => \A i \in 1..Len(get_prunable_toolchains) :
                     get_prunable_toolchains[i] \notin failing
                         => toolchain_dir(get_prunable_toolchains[i]) \notin dirs']_vars

\* C7: for toolchains A and B of list(), with A active: after a successful
\* switch to B, current() returns B, and every toolchain directory, that
\* of A among them, and every file is as before.
C7_SwitchKeepsToolchains ==
    [][\A v \in VersionArgs :
          (/\ last'.op = "switch"
           /\ last'.res = "ok"
           /\ v \in ToolchainEntries(FsNow)
           /\ \E env \in LinkEnvs : Switch(v, env))
              => /\ current' = LinkTo(toolchain_dir(v))
                 /\ get_current_toolchain' = Some(v)
                 /\ dirs' = dirs
                 /\ files' = files]_vars

\* A switch to B has succeeded while another toolchain of list(), A, was
\* the active one.
C7_Witness ==
    /\ last.op = "switch"
    /\ last.res = "ok"
    /\ last.before.link
    /\ last.before # current
    /\ Len(last.before.target) = 1
    /\ last.before.target[1] \in ToolchainEntries(FsNow)
    /\ Len(current.target) = 1
    /\ current.target[1] \in ToolchainEntries(FsNow)

\* The list() entry of a name says is_current.
IsCurrent(name) ==
    \E i \in 1..Len(list_toolchains) :
        list_toolchains[i].name = name /\ list_toolchains[i].is_current

\* C8, as stated: after a successful import, exists(name) is true and the
\* list() entry of the imported toolchain has is_current == false.
C8_ImportLeavesInactive ==
    [][\A ar \in ImportArchives :
          (/\ last'.op = "import"
           /\ last'.res = "ok"
           /\ \E env \in LinkEnvs : Import(ar, env))
              => /\ toolchain_exists(FsNow, ImportVersion(ar))'
                 /\ ~IsCurrent(ImportVersion(ar))']_vars

\* C8, as the code has it: after a successful import, exists(name) is true
\* and the list() entry of the imported toolchain has is_current == true;
\* import activates what it imports.
C8_ImportActivates ==
    [][\A ar \in ImportArchives :
          (/\ last'.op = "import"
           /\ last'.res = "ok"
           /\ \E env \in LinkEnvs : Import(ar, env))
              => /\ toolchain_exists(FsNow, ImportVersion(ar))'
                 /\ IsCurrent(ImportVersion(ar))']_vars

\* An import has succeeded and its toolchain is the current one.
C8_Witness ==
    /\ last.op = "import"
    /\ last.res = "ok"
    /\ \E ar \in ImportArchives : IsCurrent(ImportVersion(ar))

----------------------------------------------------------------------------
(* Properties of the activation.                                           *)

\* The command inside create_link, or the last one that was.
Activation == IF pc = "link" THEN pending ELSE last

\* C6: with an old activation in place, at every point of the activation,
\* the end of the process there included, `current` is the old link or the
\* new one, and after a failed link creation it is the old one.
C6_ActivationAtomic ==
    (Activation.op \in {"switch", "import"} /\ Activation.before.link)
        => /\ Activation.res \in {"", "killed", "ok"}
               => current \in {Activation.before, LinkTo(Activation.dest)}
           /\ Activation.res = "link_failed" => current = Activation.before

----------------------------------------------------------------------------
(* Properties of the extraction.                                           *)

\* An archive has a member with a ".." component in its stored path.
HasUnsafeEntry(ar) ==
    \E i \in 1..Len(ar.entries) : HasParentDir(ar.entries[i].name)

\* C9: for tar, gzipped tar and zip, and for install and import, an archive
\* with a member whose path has a ".." component makes the command fail,
\* and the toolchain is not activated.
C9_ParentDirIsFatal ==
    [][/\ \A ar \in ArchiveInputs :
              (last'.op = "import" /\ HasUnsafeEntry(ar) /\ Import(ar, LinkOk))
                  => last'.res # "ok" /\ current' = current
       /\ \A tag \in InstallTags, dl \in ArchiveDownloads :
              (last'.op = "install" /\ HasUnsafeEntry(dl.val) /\ Install(tag, dl, LinkOk))
                  => last'.res # "ok" /\ current' = current]_vars

\* Every directory made and every file written by a step is below dest,
\* and nothing is written outside the toolchains root.
Confined(dest) ==
    /\ outside' = outside
    /\ \A p \in dirs' \ dirs : IsPrefix(dest, p)
    /\ \A p \in DOMAIN files' :
           (p \notin DOMAIN files \/ files'[p] # files[p]) => IsPrefix(dest, p)

\* C10: the extraction of an archive, one with a member ../../etc/passwd
\* included, makes and changes no file or directory outside its
\* destination directory.
C10_ExtractionConfined ==
    [][/\ \A ar \in ArchiveInputs :
              (last'.op = "import" /\ Import(ar, LinkOk))
                  => Confined(toolchain_dir(ImportVersion(ar)))
       /\ \A tag \in InstallTags, dl \in ArchiveDownloads :
              (last'.op = "install" /\ Install(tag, dl, LinkOk))
                  => Confined(toolchain_dir(InstallVersion(tag)))]_vars

\* An archive with a member ../../etc/passwd has been extracted: its other
\* members are in its destination directory.
C10_Witness ==
    /\ last.op = "import"
    /\ \E ar \in EvilArchives :
           /\ \E i \in 1..Len(ar.entries) : ar.entries[i].name = "../../etc/passwd"
           /\ (toolchain_dir(ImportVersion(ar)) \o <<"bin", "zrc">>) \in DOMAIN files
           /\ current = LinkTo(toolchain_dir(ImportVersion(ar)))

\* An archive has a member with an absolute stored path.
HasAbsoluteEntry(ar) ==
    \E i \in 1..Len(ar.entries) : is_absolute(Components(ar.entries[i].name))

\* No member with an absolute stored path is in dest under its path with
\* the root taken off.
NotRerooted(ar, dest) ==
    \A i \in 1..Len(ar.entries) :
        is_absolute(Components(ar.entries[i].name))
            => (dest \o Tail(Components(ar.entries[i].name))) \notin DOMAIN files'

\* C11: for tar, gzipped tar and zip, and for install and import, an
\* archive with a member whose stored path is absolute makes the command
\* fail; the member is extracted neither at its absolute place nor below
\* the destination directory.
C11_AbsolutePathIsFatal ==
    [][/\ \A ar \in ArchiveInputs :
              (last'.op = "import" /\ HasAbsoluteEntry(ar) /\ Import(ar, LinkOk)
               /\ last'.res # "already_exists")
                  => /\ last'.res = "extract_failed"
                     /\ outside' = outside
                     /\ NotRerooted(ar, toolchain_dir(ImportVersion(ar)))
       /\ \A tag \in InstallTags, dl \in ArchiveDownloads :
              (last'.op = "install" /\ HasAbsoluteEntry(dl.val) /\ Install(tag, dl, LinkOk)
               /\ last'.res # "already_exists")
                  => /\ last'.res = "extract_failed"
                     /\ outside' = outside
                     /\ NotRerooted(dl.val, toolchain_dir(InstallVersion(tag)))]_vars

\* The file system after the step.
FsNext == [dirs |-> dirs', files |-> files', outside |-> outside']

\* The results of a command that ended before its extraction was done.
BeforeValidation == {"already_exists", "download_failed", "extract_failed"}

\* C12: after the extraction, install and import fail and activate nothing
\* when the extracted directory has no bin/ or bin/ has no primary
\* executable.
C12_ValidationIsFatal ==
    [][/\ \A ar \in ArchiveInputs :
              (/\ last'.op = "import"
               /\ Import(ar, LinkOk)
               /\ last'.res \notin BeforeValidation
               /\ ~verify_toolchain(FsNext, toolchain_dir(ImportVersion(ar))))
                  => last'.res = "invalid_structure" /\ current' = current
       /\ \A tag \in InstallTags, dl \in ArchiveDownloads :
              (/\ last'.op = "install"
               /\ Install(tag, dl, LinkOk)
               /\ last'.res \notin BeforeValidation
               /\ ~verify_toolchain(FsNext, toolchain_dir(InstallVersion(tag))))
                  => last'.res = "invalid_structure" /\ current' = current]_vars

----------------------------------------------------------------------------
(* Properties of the toolchain directories.                                *)

\* C13: a toolchain directory that is the active one is not written into
\* by a later build, install or import that derives its name: the command
\* ends before it populates the directory, and every file is as it was.
C13_ActiveDirectoryNotRewritten ==
    [][/\ \A reference \in BuildRefs, fault \in BuildFaults :
              (/\ last'.op = "build"
               /\ Build(reference, fault, LinkOk)
               /\ last'.res \notin FailedEarly
               /\ current = LinkTo(toolchain_dir(BuildVersion(mirror', reference)))
               /\ current_link_exists)
                  => /\ last'.res \notin {"ok", "hook_failed"}
                     /\ dirs' = dirs /\ files' = files
       /\ \A ar \in ImportArchives :
              (/\ last'.op = "import"
               /\ Import(ar, LinkOk)
               /\ current = LinkTo(toolchain_dir(ImportVersion(ar)))
               /\ current_link_exists)
                  => /\ last'.res = "already_exists"
                     /\ dirs' = dirs /\ files' = files
       /\ \A tag \in InstallTags, dl \in Downloads :
              (/\ last'.op = "install"
               /\ Install(tag, dl, LinkOk)
               /\ current = LinkTo(toolchain_dir(InstallVersion(tag)))
               /\ current_link_exists)
                  => /\ last'.res \in {"already_exists", "download_failed"}
                     /\ dirs' = dirs /\ files' = files]_vars

\* C14: import and install whose derived name is already a directory under
\* the toolchains root fail with already-exists, and the directories, the
\* files and the `current` link are as before.
C14_AlreadyExistsRefused ==
    [][/\ \A ar \in ImportArchives :
              (/\ last'.op = "import"
               /\ toolchain_exists(FsNow, ImportVersion(ar))
               /\ \E env \in LinkEnvs : Import(ar, env))
                  => /\ last'.res = "already_exists"
                     /\ UNCHANGED <<dirs, files, current, outside>>
       /\ \A tag \in InstallTags, dl \in Downloads :
              (/\ last'.op = "install"
               /\ dl.some
               /\ toolchain_exists(FsNow, InstallVersion(tag))
               /\ \E env \in LinkEnvs : Install(tag, dl, env))
                  => /\ last'.res = "already_exists"
                     /\ UNCHANGED <<dirs, files, current, outside>>]_vars

\* An import or an install has been refused because its directory was there.
C14_Witness ==
    /\ last.op \in {"import", "install"}
    /\ last.res = "already_exists"
    /\ \E v \in VersionArgs : toolchain_exists(FsNow, v)

----------------------------------------------------------------------------
(* Properties of the repository mirror.                                    *)

\* The mirror has a reference of this full name.
HasRef(m, name) == name \in DOMAIN m.refs

\* The first of git's short-name forms that names a reference of the
\* mirror, "" when none does.
ShortNameOf(m, r) ==
    IF HasRef(m, r) THEN r
    ELSE IF HasRef(m, "refs/" \o r) THEN "refs/" \o r
    ELSE IF HasRef(m, "refs/tags/" \o r) THEN "refs/tags/" \o r
    ELSE IF HasRef(m, "refs/heads/" \o r) THEN "refs/heads/" \o r
    ELSE IF HasRef(m, "refs/remotes/" \o r) THEN "refs/remotes/" \o r
    ELSE IF HasRef(m, "refs/remotes/" \o r \o "/HEAD") THEN "refs/remotes/" \o r \o "/HEAD"
    ELSE ""

\* A string is the id of a commit the mirror has, in either case.
IsCommitOf(m, r) ==
    \E c \in m.odb : r \in {c, UpperA} /\ to_string(r) = c

\* C15: checkout_ref takes the first match of: the remote-tracking branch
\* refs/remotes/origin/<name>, the short name (tags, local branches), the
\* commit id.  A name that is a remote-tracking branch and a stale local
\* branch is checked out at the commit of the remote-tracking branch; when
\* nothing matches, checkout_ref fails and the mirror is as it was.
C15_CheckoutOrder ==
    [][\A r \in GitRefs :
          (last'.op = "checkout" /\ CheckoutRef(r))
              => IF HasRef(mirror, "refs/remotes/origin/" \o r)
                 THEN /\ last'.res = "ok"
                      /\ mirror'.head = mirror.refs["refs/remotes/origin/" \o r]
                 ELSE IF ShortNameOf(mirror, r) # ""
                 THEN /\ last'.res = "ok"
                      /\ mirror'.head = mirror.refs[ShortNameOf(mirror, r)]
                 ELSE IF IsCommitOf(mirror, r)
                 THEN /\ last'.res = "ok"
                      /\ mirror'.head = to_string(r)
                 ELSE /\ last'.res = "ref_not_found"
                      /\ mirror' = mirror]_vars

\* main has been checked out while the local branch main was stale: HEAD is
\* at the commit of the remote-tracking branch.
C15_Witness ==
    /\ last.op = "checkout"
    /\ last.ref = "main"
    /\ last.res = "ok"
    /\ HasRef(mirror, "refs/heads/main")
    /\ HasRef(mirror, "refs/remotes/origin/main")
    /\ mirror.refs["refs/heads/main"] # mirror.refs["refs/remotes/origin/main"]
    /\ mirror.head = mirror.refs["refs/remotes/origin/main"]

\* The kind the probes give in their order: tag of this name, local or
\* remote-tracking branch of this name, id of a commit of the mirror, the
\* namespace of the short name's reference, and Branch when all fail.
KindInOrder(m, r) ==
    IF HasRef(m, "refs/tags/" \o r) THEN "Tag"
    ELSE IF HasRef(m, "refs/heads/" \o r) \/ HasRef(m, "refs/remotes/origin/" \o r)
    THEN "Branch"
    ELSE IF IsCommitOf(m, r) THEN "Commit"
    ELSE IF StartsWith(ShortNameOf(m, r), "refs/tags/") THEN "Tag"
    ELSE "Branch"

\* C16: the classifier returns the kind of the first probe that matches, in
\* the order tag, branch, commit id, short name, and Branch otherwise; it
\* returns a kind for every string, and a string that is a tag name and a
\* commit id is a Tag.
C16_ClassifierOrder ==
    [][\A r \in GitRefs :
          (last'.op = "classify" /\ Classify(r))
              => /\ last'.res \in {"Tag", "Branch", "Commit"}
                 /\ last'.res = KindInOrder(mirror, r)
                 /\ (HasRef(mirror, "refs/tags/" \o r) /\ IsCommitOf(mirror, r))
                        => last'.res = "Tag"]_vars

\* A string that is the name of a tag and the id of a commit has been
\* classified, as a Tag.
C16_Witness ==
    /\ last.op = "classify"
    /\ HasRef(mirror, "refs/tags/" \o last.ref)
    /\ IsCommitOf(mirror, last.ref)
    /\ last.res = "Tag"

\* The tag a reference string resolves to in checkout_ref, "" when it
\* resolves to no tag: the text after refs/tags/ of the reference found.
TagOf(m, r) ==
    IF HasRef(m, "refs/remotes/origin/" \o r) THEN ""
    ELSE IF StartsWith(ShortNameOf(m, r), "refs/tags/")
    THEN SubSeq(ShortNameOf(m, r), Len("refs/tags/") + 1, Len(ShortNameOf(m, r)))
    ELSE ""

\* C17: for every reference string that resolves to a tag, the name build
\* derives is the text of the tag, and deriving it again on the unchanged
\* mirror gives the same name.
C17_TagNameIsTagText ==
    [][\A r \in GitRefs :
          (/\ last'.op = "version"
           /\ DeriveVersion(r)
           /\ last'.res = "ok"
           /\ TagOf(mirror, r) # "")
              => /\ last'.version = TagOf(mirror, r)
                 /\ BuildVersion(checkout_ref(mirror', r).m, r) = last'.version]_vars

\* C18: for every reference classified as a branch, the name build derives
\* is the branch name with each '/' replaced by '-', then '@', then the 8
\* hex digits the hash of the checked-out commit starts with.
C18_BranchNameForm ==
    [][\A r \in GitRefs :
          (/\ last'.op = "version"
           /\ DeriveVersion(r)
           /\ last'.res = "ok"
           /\ determine_ref_type(mirror', r).kind = "Branch")
              => /\ Len(last'.version) = Len(r) + 1 + 8
                 /\ \A i \in 1..Len(r) :
                        CharAt(last'.version, i) =
                            (IF CharAt(r, i) = "/" THEN "-" ELSE CharAt(r, i))
                 /\ CharAt(last'.version, Len(r) + 1) = "@"
                 /\ SubSeq(last'.version, Len(r) + 2, Len(r) + 9) = SubSeq(mirror'.head, 1, 8)
                 /\ AllHex(SubSeq(last'.version, Len(r) + 2, Len(r) + 9), 1)
                 /\ mirror'.head \in mirror'.odb]_vars

\* The name of a branch with a '/' in it has been derived.
C18_Witness ==
    /\ last.op = "version"
    /\ last.res = "ok"
    /\ last.ref = "rel/x"
    /\ determine_ref_type(mirror, last.ref).kind = "Branch"
    /\ mirror.head = mirror.refs["refs/remotes/origin/rel/x"]

\* C19: for every reference classified as a commit, the name build derives
\* is the 8 characters get_current_commit_short returns for the
\* checked-out commit, and nothing else.
C19_CommitNameIsShortHash ==
    [][\A r \in GitRefs :
          (/\ last'.op = "version"
           /\ DeriveVersion(r)
           /\ last'.res = "ok"
           /\ determine_ref_type(mirror', r).kind = "Commit")
              => /\ last'.version = SubSeq(mirror'.head, 1, 8)
                 /\ Len(last'.version) = 8]_vars

\* C20: two builds of references that differ in text (and with it in kind
\* or in short hash) never derive the same toolchain name: of two
\* derivations in a row for different references, the second does not give
\* the name of the first.
C20_NamesDoNotCollide ==
    [][\A r \in GitRefs :
          (/\ last.op = "version"
           /\ last.res = "ok"
           /\ last.ref # r
           /\ last'.op = "version"
           /\ DeriveVersion(r)
           /\ last'.res = "ok")
              => last'.version # last.version]_vars

----------------------------------------------------------------------------
(* Properties of the queries.                                              *)

\* The names of the directories directly under the toolchains root, the
\* `current` link left out.
Subdirectories == { d[1] : d \in { p \in dirs : Len(p) = 1 } } \ {"current"}

\* C21: list() returns exactly the immediate subdirectories of the
\* toolchains root other than `current`, each once, in ascending order of
\* their names; an entry is_current exactly when its name is the name
\* current() returns, so at most one entry is, and none without the link.
C21_ListIsSortedDirectory ==
    last.op = "list" =>
        LET L == list_toolchains
        IN  /\ { L[i].name : i \in 1..Len(L) } = Subdirectories
            /\ Len(L) = Cardinality(Subdirectories)
            /\ \A i, j \in 1..Len(L) : i < j => StrLess(L[i].name, L[j].name)
            /\ \A i \in 1..Len(L) :
                   L[i].is_current <=> get_current_toolchain = Some(L[i].name)
            /\ Cardinality({ i \in 1..Len(L) : L[i].is_current }) <= 1
            /\ ~current.link => \A i \in 1..Len(L) : ~L[i].is_current

\* list() has been called with two toolchains installed, the second of
\* them the current one.
C21_Witness ==
    /\ last.op = "list"
    /\ Len(list_toolchains) = 2
    /\ ~list_toolchains[1].is_current
    /\ list_toolchains[2].is_current

----------------------------------------------------------------------------
(* Properties of the build.                                                *)

\* C23: a build whose fetch fails returns the error of fetch and ends
\* before checkout_ref: the commit the mirror has checked out and its HEAD,
\* the toolchain directories, their files and the `current` link are as
\* they were.
C23_FetchFailureStopsBuild ==
    [][\A reference \in BuildRefs :
          (last'.op = "build" /\ Build(reference, "fetch", LinkOk))
              => /\ last'.res = "fetch_failed"
                 /\ mirror.cloned => mirror' = mirror
                 /\ mirror'.head = clone_or_open(mirror, DefaultUrl).head
                 /\ UNCHANGED <<dirs, files, current, outside>>]_vars

\* A build has ended on a failed fetch with a toolchain active and the
\* mirror checked out at a commit an earlier build had asked for.
C23_Witness ==
    /\ last.op = "build"
    /\ last.res = "fetch_failed"
    /\ current.link
    /\ mirror.cloned
    /\ mirror.head # Upstream(mirror.origin).heads[Upstream(mirror.origin).default]

----------------------------------------------------------------------------
(* Properties of the names.                                                *)

\* C25: for every name N that build, install, import or switch activates,
\* a name with a path separator included, current() returns N afterwards;
\* and no delete removes the directory the `current` link points to.
C25_CurrentReturnsActivatedName ==
    [][/\ \A v \in VersionArgs :
              (last'.op = "switch" /\ last'.res = "ok" /\ \E env \in LinkEnvs : Switch(v, env))
                  => get_current_toolchain' = Some(v)
       /\ \A reference \in BuildRefs, fault \in BuildFaults :
              (last'.op = "build" /\ last'.res = "ok"
               /\ \E env \in LinkEnvs : Build(reference, fault, env))
                  => get_current_toolchain' = Some(BuildVersion(mirror', reference))
       /\ \A ar \in ImportArchives :
              (last'.op = "import" /\ last'.res = "ok" /\ \E env \in LinkEnvs : Import(ar, env))
                  => get_current_toolchain' = Some(ImportVersion(ar))
       /\ \A tag \in InstallTags, dl \in Downloads :
              (last'.op = "install" /\ last'.res = "ok"
               /\ \E env \in LinkEnvs : Install(tag, dl, env))
                  => get_current_toolchain' = Some(InstallVersion(tag))
       /\ \A v \in VersionArgs, io \in BOOLEAN :
              (last'.op = "delete" /\ current_link_exists /\ Delete(v, io))
                  => current.target \in dirs']_vars

\* C27: switch activates only a name list() reports: for an argument that
\* is not an immediate subdirectory of the toolchains root, a nested path
\* for one, switch fails and `current` is as it was.
C27_SwitchOnlyListedNames ==
    [][\A v \in VersionArgs :
          (/\ last'.op = "switch"
           /\ v \notin ToolchainEntries(FsNow)
           /\ Switch(v, LinkOk))
              => /\ last'.res = "not_found"
                 /\ current' = current]_vars

\* The file system with nothing under the toolchains root.
EmptyFs == [dirs |-> {}, files |-> <<>>, outside |-> {}]

\* C29: a failed import can be retried: the import of an archive whose
\* directory is there because its import failed in extraction or
\* validation is not refused with already-exists.
C29_FailedImportCanBeRetried ==
    [][\A ar \in ImportArchives :
          (/\ last'.op = "import"
           /\ ImportRun(EmptyFs, mirror, ar).res \in FailedLate
           /\ toolchain_exists(FsNow, ImportVersion(ar))
           /\ Import(ar, LinkOk))
              => last'.res # "already_exists"]_vars

----------------------------------------------------------------------------
(* Properties of the remote.                                               *)

\* C26: the commit build checks out agrees with the kind it names the
\* toolchain by: when the name is that of Tag(t), the commit checked out
\* and built is the commit the tag t points to, also when a
\* remote-tracking branch of the name t exists.
C26_TagNameMeansTagCommit ==
    [][\A url \in RepoUrls, reference \in RemoteRefs :
          (/\ last'.op = "build"
           /\ BuildFrom(url, reference, "none")
           /\ last'.res = "ok"
           /\ determine_ref_type(mirror', reference).kind = "Tag"
           /\ HasRef(mirror', "refs/tags/" \o reference))
              => mirror'.head = mirror'.refs["refs/tags/" \o reference]]_vars

\* C28: a build given the repository URL U builds from the repository at
\* U: the mirror it has fetched and checked out has U as its origin, also
\* when a mirror cloned from another URL was there.
C28_BuildsFromGivenUrl ==
    [][\A url \in RepoUrls, reference \in RemoteRefs, fault \in {"none", "fetch"} :
          (/\ last'.op = "build"
           /\ BuildFrom(url, reference, fault)
           /\ last'.res = "ok")
              => /\ mirror'.origin = url
                 /\ mirror'.head \in Upstream(url).commits]_vars

----------------------------------------------------------------------------
(* Properties of the zircon root.                                          *)

\* C24: ensure_directories is idempotent and safe in every state: a second
\* call gives the result and the directories of the first, and the call
\* changes no toolchain directory, not the `current` link, not the mirror,
\* and no file, directory or link there is; when it succeeds the
\* directories of the skeleton are there.
C24_EnsureDirectoriesIdempotent ==
    [][(last'.op = "bootstrap" /\ Bootstrap)
          => /\ UNCHANGED <<dirs, files, current, outside, mirror>>
             /\ root'.files = root.files
             /\ root'.link = root.link
             /\ root'.outside = root.outside
             /\ root.dirs \subseteq root'.dirs
             /\ ensure_directories(root') = [ok |-> last'.res = "ok", fs |-> root']
             /\ last'.res = "ok" =>
                    \A i \in 1..Len(SkeletonDirs) : SkeletonDirs[i] \in root'.dirs]_vars

\* ensure_directories has been called with a toolchain active, the mirror
\* cloned and zircon installed under self/: all of them are there.
C24_Witness ==
    /\ last.op = "bootstrap"
    /\ last.res = "ok"
    /\ current_link_exists
    /\ mirror.cloned
    /\ root.link = LinkTo(self_zircon_binary)
    /\ self_zircon_binary \in DOMAIN root.files

\* zircon is installed under self/: the binary is there and bin/zircon
\* links to it.
SelfInstalled(R) ==
    /\ self_zircon_binary \in DOMAIN R.files
    /\ R.link = LinkTo(self_zircon_binary)

\* C30: a self-import that fails (format not supported, extraction error,
\* no bin/, no zircon binary) leaves the self directory that was installed
\* and the link bin/zircon as they were: the link still leads to the binary
\* it led to.
C30_FailedSelfImportKeepsSelf ==
    [][\A ar \in SelfArchives :
          (/\ last'.op = "self_import"
           /\ SelfInstalled(root)
           /\ SelfImport(ar)
           /\ last'.res \in {"extract_failed", "invalid_structure", "binary_missing"})
              => /\ SelfInstalled(root')
                 /\ \A p \in DOMAIN root.files :
                        IsPrefix(self_dir, p)
                            => p \in DOMAIN root'.files /\ root'.files[p] = root.files[p]]_vars

====
